---- MODULE Spec2Model ----
(***************************************************************************)
(* Model of the toast provider of src/src/App.tsx: the toasts state of     *)
(* ToastProvider, the mount guard of useIsMounted / useSafeDispatch, the   *)
(* removal timers armed by dispatchToast, and dismissToast.                *)
(*                                                                         *)
(* Time is the millisecond clock read by `new Date().valueOf()`.  A timer  *)
(* armed with setTimeout(cb, d) at clock value t is due at t + d; the      *)
(* event loop runs due callbacks in order of due time (ties in arming      *)
(* order) and the clock does not pass a due time while its callback is     *)
(* still waiting.  Handlers called by the host (dispatchToast,             *)
(* dismissToast, unmount) may run between a timer becoming due and its     *)
(* callback.                                                               *)
(*                                                                         *)
(* Objects are compared by reference in the timer callback (line 77), so   *)
(* every entry carries the field ref, the identity of the object created   *)
(* by the spread of line 71.  ref is not a field the program can read.     *)
(***************************************************************************)
EXTENDS Integers, Sequences, FiniteSets

VARIABLES
    mountRef,        \* useIsMounted: mountRef.current
    lifecycle,       \* position of the provider in React's lifecycle
    dismissTimeProp, \* the dismissTime prop given to ToastProvider (NoValue: not given)
    toasts,          \* ToastProvider: the toasts state
    timers,          \* setTimeout callbacks armed and not yet run
    clock,           \* the millisecond clock
    nextRef,         \* identity of the next object created by dispatchToast
    lastOp,          \* the operation that made this state, with its arguments
    dispatchCalls,   \* number of calls of dispatchToast so far
    timersScheduled  \* number of setTimeout calls so far

\* The two counters.
counters == <<dispatchCalls, timersScheduled>>

vars == <<mountRef, lifecycle, dismissTimeProp, toasts, timers, clock, nextRef, lastOp,
          counters>>

----------------------------------------------------------------------------
\* Bounds of the exploration.

\* dispatchToast is called at most this many times.
MaxDispatch == 3

\* Single-millisecond clock steps are taken while the clock is below this.
MaxClock == 2

----------------------------------------------------------------------------
\* Program constants and input domains.

\* An optional number that is absent (undefined).
NoValue == -1

\* The default of the dismissTime prop.
DefaultDismissTime == 2000

\* The payloads the callers pass to dispatchToast: one without dismissTime,
\* one with dismissTime 0 and one with a positive dismissTime; the types are
\* two keys of toastDataMap and one value that is not a key (the type is not
\* validated at run time).
ToastPayload ==
    {[type |-> "success", message |-> "ok", dismissTime |-> NoValue],
     [type |-> "info", message |-> "ok", dismissTime |-> 0],
     [type |-> "bogus", message |-> "ok", dismissTime |-> 1]}

\* Values of the provider's dismissTime prop.
PropDismissTimes == {NoValue, 2}

\* An identifier no entry carries (identifiers are clock readings, >= 0).
AbsentId == -2

----------------------------------------------------------------------------
\* Pure functions of the program.

\* a ?? b
NullishCoalesce(a, b) == IF a = NoValue THEN b ELSE a

\* a || b on optional numbers: 0 is falsy.
LogicalOr(a, b) == IF a = NoValue \/ a = 0 THEN b ELSE a

\* The dismissTime binding of ToastProvider: the prop, or 2000 when the
\* prop is not given.
ProviderDismissTime(prop) == IF prop = NoValue THEN DefaultDismissTime ELSE prop

RealDismissTimeOr(payload, dismissTime) == LogicalOr(payload.dismissTime, dismissTime)

\* const realDismissTime = payload.dismissTime ?? dismissTime
RealDismissTime(payload, dismissTime) == NullishCoalesce(payload.dismissTime, dismissTime)

\* { ...payload, id: new Date().valueOf() }, a new object (ref).
ExtendPayload(payload, now, ref) ==
    [type |-> payload.type, message |-> payload.message,
     dismissTime |-> payload.dismissTime, id |-> now, ref |-> ref]

\* The payload an entry was made from.
PayloadOf(entry) ==
    [type |-> entry.type, message |-> entry.message, dismissTime |-> entry.dismissTime]

OnlyEntry(extendPayload, oldToasts) == <<extendPayload>>

AppendEntry(extendPayload, oldToasts) == oldToasts \o <<extendPayload>>

\* (oldToasts) => [extendPayload, ...oldToasts]
PrependEntry(extendPayload, oldToasts) == <<extendPayload>> \o oldToasts

KeepNotSameNever(oldToasts, extendPayload) == oldToasts

\* The filter of the timer callback comparing identifiers, not objects.
KeepNotSameId(oldToasts, extendPayload) ==
    LET differs(toastPayload) == toastPayload.id # extendPayload.id
    IN  SelectSeq(oldToasts, differs)

\* oldToasts.filter((toastPayload) => toastPayload !== extendPayload)
KeepNotSame(oldToasts, extendPayload) ==
    LET differs(toastPayload) == toastPayload.ref # extendPayload.ref
    IN  SelectSeq(oldToasts, differs)

KeepOnlyId(oldToasts, id) ==
    LET same(toast) == toast.id = id
    IN  SelectSeq(oldToasts, same)

\* oldToasts.filter((toast) => toast.id !== id)
KeepNotId(oldToasts, id) ==
    LET differs(toast) == toast.id # id
    IN  SelectSeq(oldToasts, differs)

SafeDispatchUnguarded(isMounted, current, updated) == updated

SafeDispatchInverted(isMounted, current, updated) ==
    IF isMounted THEN current ELSE updated

\* useSafeDispatch: the state after safeSetToasts(updater), where updated is
\* updater(current): nothing happens unless isMounted.current.
SafeDispatch(isMounted, current, updated) ==
    IF ~isMounted THEN current ELSE updated

\* toastDataMap (the icons are named here, not spelled).
toastDataMap ==
    [success |-> [light |-> "#CBF8B3", dark |-> "#0B5B1D", icon |-> "check-mark"],
     error |-> [light |-> "#FFC7AD", dark |-> "#7A0925", icon |-> "cross-mark"],
     warning |-> [light |-> "#FFF1A6", dark |-> "#7A5606", icon |-> "warning-sign"],
     info |-> [light |-> "#B4ECFE", dark |-> "#0D3378", icon |-> "information-source"]]

\* The values of type that are keys of toastDataMap.
ToastTypes == DOMAIN toastDataMap

\* Toast(props), the default renderer: the element it returns, or the
\* TypeError of reading .dark of toastDataMap[type] when that is undefined.
Toast(props) ==
    IF props.type \notin DOMAIN toastDataMap
    THEN [error |-> "TypeError"]
    ELSE [error |-> "none",
          border |-> <<"1px solid", toastDataMap[props.type].dark>>,
          background |-> toastDataMap[props.type].light,
          color |-> toastDataMap[props.type].dark,
          text |-> <<toastDataMap[props.type].icon, props.message>>,
          onClick |-> <<"dismissToast", props.id>>]

\* The pending timer that runs next: earliest due time, ties in arming order.
RunsFirst(t) ==
    \A u \in timers :
        \/ t.due < u.due
        \/ t.due = u.due /\ t.entry.ref <= u.entry.ref

\* No entry: the entry of an operation that has none.
NoEntry ==
    [type |-> "", message |-> "", dismissTime |-> NoValue, id |-> NoValue, ref |-> 0]

\* The record kept in lastOp: the operation, the entry it made (dispatchToast)
\* or closed over (timer), the identifier it was called with (dismissToast),
\* the collection before it and the error it raised ("none": it returned).
Op(op, entry, id, before) ==
    [op |-> op, entry |-> entry, id |-> id, before |-> before, error |-> "none"]

\* The members of the value ToastProvider gives to ToastContext.Provider.
ProviderContextValue == {"dispatchToast", "dismissToast"}

\* The members of the default value of ToastContext: {} as ToastContextValue.
DefaultContextValue == {}

\* useToasts(): the value of the nearest ToastContext.Provider, or the
\* default value of the context when there is none.
UseToasts(insideProvider) ==
    IF insideProvider THEN ProviderContextValue ELSE DefaultContextValue

\* contextValue.member(...): calling a member the object does not have
\* (undefined) raises a TypeError; otherwise the member runs.
CallMember(contextValue, member) ==
    IF member \in contextValue THEN "none" ELSE "TypeError"

----------------------------------------------------------------------------
\* The state after ToastProvider's first render: useState([]), useRef(false).
Init ==
    /\ mountRef = FALSE
    /\ lifecycle = "rendered"
    /\ dismissTimeProp \in PropDismissTimes
    /\ toasts = <<>>
    /\ timers = {}
    /\ clock = 0
    /\ nextRef = 1
    /\ lastOp = Op("render", NoEntry, NoValue, <<>>)
    /\ dispatchCalls = 0
    /\ timersScheduled = 0

\* useIsMounted: the layout effect.
Mount ==
    /\ lifecycle = "rendered"
    /\ lifecycle' = "mounted"
    /\ mountRef' = TRUE
    /\ lastOp' = Op("mount", NoEntry, NoValue, toasts)
    /\ UNCHANGED <<dismissTimeProp, toasts, timers, clock, nextRef, counters>>

\* useIsMounted: the cleanup of the layout effect.
Unmount ==
    /\ lifecycle = "mounted"
    /\ lifecycle' = "unmounted"
    /\ mountRef' = FALSE
    /\ lastOp' = Op("unmount", NoEntry, NoValue, toasts)
    /\ UNCHANGED <<dismissTimeProp, toasts, timers, clock, nextRef, counters>>

\* dispatchToast(payload) returning at once when the provider is not mounted.
DispatchToastMountedOnly(payload) ==
    /\ nextRef <= MaxDispatch
    /\ dispatchCalls' = dispatchCalls + 1
    /\ LET realDismissTime ==
               RealDismissTime(payload, ProviderDismissTime(dismissTimeProp))
           extendPayload == ExtendPayload(payload, clock, nextRef)
       IN  /\ toasts' = SafeDispatch(mountRef, toasts, PrependEntry(extendPayload, toasts))
           /\ timers' = IF mountRef
                         THEN timers \cup
                                  {[entry |-> extendPayload, delay |-> realDismissTime,
                                    due |-> clock + realDismissTime]}
                         ELSE timers
           /\ lastOp' = Op("dispatchToast", extendPayload, NoValue, toasts)
    /\ timersScheduled' = timersScheduled + Cardinality(timers' \ timers)
    /\ nextRef' = nextRef + 1
    /\ UNCHANGED <<mountRef, lifecycle, dismissTimeProp, clock>>

\* dispatchToast(payload)
DispatchToast(payload) ==
    /\ nextRef <= MaxDispatch
    /\ dispatchCalls' = dispatchCalls + 1
    /\ LET realDismissTime ==
               RealDismissTime(payload, ProviderDismissTime(dismissTimeProp))
           extendPayload == ExtendPayload(payload, clock, nextRef)
       IN  /\ toasts' = SafeDispatch(mountRef, toasts, PrependEntry(extendPayload, toasts))
           /\ timers' = timers \cup
                  {[entry |-> extendPayload, delay |-> realDismissTime,
                    due |-> clock + realDismissTime]}
           /\ lastOp' = Op("dispatchToast", extendPayload, NoValue, toasts)
    /\ timersScheduled' = timersScheduled + Cardinality(timers' \ timers)
    /\ nextRef' = nextRef + 1
    /\ UNCHANGED <<mountRef, lifecycle, dismissTimeProp, clock>>

\* The callback given to setTimeout by dispatchToast.
TimerFires(t) ==
    /\ t \in timers
    /\ t.due <= clock
    /\ RunsFirst(t)
    /\ toasts' = SafeDispatch(mountRef, toasts, KeepNotSame(toasts, t.entry))
    /\ timers' = timers \ {t}
    /\ lastOp' = Op("timer", t.entry, NoValue, toasts)
    /\ UNCHANGED <<mountRef, lifecycle, dismissTimeProp, clock, nextRef, counters>>

\* dismissToast(id) clearing the timers of the entries it removes.
DismissToastAndCancel(id) ==
    /\ toasts' = KeepNotId(toasts, id)
    /\ timers' = {t \in timers : t.entry.id # id}
    /\ lastOp' = Op("dismissToast", NoEntry, id, toasts)
    /\ UNCHANGED <<mountRef, lifecycle, dismissTimeProp, clock, nextRef, counters>>

\* dismissToast(id): the update goes to setToasts itself, not to
\* safeSetToasts, so the updater is applied whatever mountRef holds.
DismissToast(id) ==
    /\ toasts' = KeepNotId(toasts, id)
    /\ lastOp' = Op("dismissToast", NoEntry, id, toasts)
    /\ UNCHANGED <<mountRef, lifecycle, dismissTimeProp, timers, clock, nextRef, counters>>

\* A consumer rendered outside every ToastProvider calls
\* useToasts().dispatchToast(payload); the payload is not read by the call,
\* whose outcome the context value alone decides.
DispatchOutsideProvider ==
    /\ lastOp' = [Op("dispatchToastOutsideProvider", NoEntry, NoValue, toasts)
                      EXCEPT !.error = CallMember(UseToasts(FALSE), "dispatchToast")]
    /\ UNCHANGED <<mountRef, lifecycle, dismissTimeProp, toasts, timers, clock, nextRef, counters>>

\* One millisecond passes; no callback is overdue.
Tick ==
    /\ clock < MaxClock
    /\ \A t \in timers : clock < t.due
    /\ clock' = clock + 1
    /\ lastOp' = Op("tick", NoEntry, NoValue, toasts)
    /\ UNCHANGED <<mountRef, lifecycle, dismissTimeProp, toasts, timers, nextRef, counters>>

\* Time passes until the next timer is due.
AdvanceToTimer ==
    /\ timers # {}
    /\ \A t \in timers : clock < t.due
    /\ \E t \in timers :
           /\ RunsFirst(t)
           /\ clock' = t.due
    /\ lastOp' = Op("advance", NoEntry, NoValue, toasts)
    /\ UNCHANGED <<mountRef, lifecycle, dismissTimeProp, toasts, timers, nextRef, counters>>

\* The identifiers dismissToast is called with: those of the entries shown,
\* those of entries whose timer is pending, and one that no entry carries.
DismissIds ==
    {toasts[i].id : i \in 1..Len(toasts)} \cup {t.entry.id : t \in timers} \cup {AbsentId}

Next ==
    \/ Mount
    \/ Unmount
    \/ \E payload \in ToastPayload : DispatchToast(payload)
    \/ \E t \in timers : TimerFires(t)
    \/ \E id \in DismissIds : DismissToast(id)
    \/ DispatchOutsideProvider
    \/ Tick
    \/ AdvanceToTimer

Spec == Init /\ [][Next]_vars

----------------------------------------------------------------------------
\* Vocabulary of the properties.

\* entry is in the collection (the same object, not an equal one).
Holds(collection, entry) ==
    \E i \in 1..Len(collection) : collection[i].ref = entry.ref

\* Some entry of the collection carries the identifier.
HasId(collection, id) ==
    \E i \in 1..Len(collection) : collection[i].id = id

\* The removal timer of the entry is armed and has not run.
TimerPending(entry) ==
    \E t \in timers : t.entry.ref = entry.ref

\* The effective delay as the specification words it: the payload's
\* dismissTime when it gives one, else the provider's, which is 2000 when
\* the provider is not configured.
EffectiveDelay(entry) ==
    IF entry.dismissTime # NoValue THEN entry.dismissTime
    ELSE IF dismissTimeProp # NoValue THEN dismissTimeProp
    ELSE 2000

\* The last operation was one of the three that update the collection.
LastOpMutates == lastOp.op \in {"dispatchToast", "timer", "dismissToast"}

----------------------------------------------------------------------------
\* C1: once the provider is unmounted, a removal timer callback that runs
\* leaves the toast collection as it was.
C1_TimerAfterUnmountIsNoOp ==
    (lastOp.op = "timer" /\ lifecycle = "unmounted") => toasts = lastOp.before

\* A timer has run after the unmount while its entry was in the collection.
C1_Witness ==
    /\ lastOp.op = "timer"
    /\ lifecycle = "unmounted"
    /\ Holds(lastOp.before, lastOp.entry)
    /\ Len(toasts) >= 2

\* C2: while the provider is not mounted, none of the insert of
\* dispatchToast, the timer-driven removal and dismissToast changes the
\* collection.
C2_EveryMutationGuarded ==
    (LastOpMutates /\ ~mountRef) => toasts = lastOp.before

\* C3: the collection holds at most one entry per identifier.
C3_OneEntryPerId ==
    \A i, j \in 1..Len(toasts) : toasts[i].id = toasts[j].id => i = j

\* C4 as stated: after dispatchToast(payload) the entry made from the payload
\* is in the collection.
C4_EntryPresentAfterDispatch ==
    lastOp.op = "dispatchToast" => Holds(toasts, lastOp.entry)

\* C4, amended: after dispatchToast(payload) called while the provider is
\* mounted, the entry made from the payload is in the collection, carrying
\* the payload's fields.
C4_EntryPresentAfterMountedDispatch ==
    (lastOp.op = "dispatchToast" /\ mountRef) =>
        \E i \in 1..Len(toasts) :
            /\ toasts[i] = lastOp.entry
            /\ PayloadOf(toasts[i]) \in ToastPayload

\* dispatchToast has run on a mounted provider that showed an entry already.
C4_Witness ==
    /\ lastOp.op = "dispatchToast"
    /\ mountRef
    /\ Len(lastOp.before) >= 1

\* C5 as stated: no entry is in the collection once its effective delay has
\* elapsed since it was enqueued.
C5_AbsentAfterDelay ==
    \A i \in 1..Len(toasts) : clock <= toasts[i].id + EffectiveDelay(toasts[i])

\* C5, amended: while the provider is mounted, no entry is in the collection
\* once its effective delay has elapsed since it was enqueued.
C5_AbsentAfterDelayWhileMounted ==
    mountRef => C5_AbsentAfterDelay

\* The timer of an entry enqueued with the default delay of 2000 ms has
\* removed it from a mounted provider.
C5_Witness ==
    /\ lastOp.op = "timer"
    /\ mountRef
    /\ lastOp.entry.dismissTime = NoValue
    /\ clock >= lastOp.entry.id + DefaultDismissTime
    /\ Holds(lastOp.before, lastOp.entry)
    /\ ~Holds(toasts, lastOp.entry)

\* The entries of the collection whose identifier is not id, in their order.
OtherIds(collection, id) ==
    LET other(entry) == entry.id # id
    IN  SelectSeq(collection, other)

\* C6: dismissToast(id), called while an entry with that identifier is in the
\* collection and its timer has not run, leaves no entry with that
\* identifier and keeps the entries with other identifiers in their order.
C6_DismissRemovesKnownId ==
    (/\ lastOp.op = "dismissToast"
     /\ \E i \in 1..Len(lastOp.before) :
            /\ lastOp.before[i].id = lastOp.id
            /\ TimerPending(lastOp.before[i]))
    => (/\ ~HasId(toasts, lastOp.id)
        /\ toasts = OtherIds(lastOp.before, lastOp.id))

\* dismissToast has removed an entry whose timer is pending and has kept two
\* entries with other identifiers.
C6_Witness ==
    /\ lastOp.op = "dismissToast"
    /\ \E i \in 1..Len(lastOp.before) :
           /\ lastOp.before[i].id = lastOp.id
           /\ TimerPending(lastOp.before[i])
    /\ Len(toasts) >= 2

\* C7: dismissToast(id) with an identifier that no entry carries leaves the
\* collection unchanged, and a second dismissToast(id) right after a first
\* one leaves the collection as the first one left it.
C7_DismissAbsentIdIsNoOp ==
    [][/\ (lastOp'.op = "dismissToast" /\ ~HasId(toasts, lastOp'.id))
           => toasts' = toasts
       /\ (/\ lastOp.op = "dismissToast"
           /\ lastOp'.op = "dismissToast"
           /\ lastOp'.id = lastOp.id)
           => toasts' = toasts]_vars

\* dismissToast has been called with the identifier of an entry that is not
\* in the collection (dismissed before, or never inserted), the collection
\* not empty.
C7_Witness ==
    /\ lastOp.op = "dismissToast"
    /\ lastOp.id # AbsentId
    /\ ~HasId(lastOp.before, lastOp.id)
    /\ Len(toasts) >= 1

\* C8: of two entries made from payloads of identical content, dismissing one
\* by its identifier leaves the other in the collection.
C8_IdenticalPayloadsIndependent ==
    lastOp.op = "dismissToast" =>
        \A i, j \in 1..Len(lastOp.before) :
            (/\ i # j
             /\ PayloadOf(lastOp.before[i]) = PayloadOf(lastOp.before[j])
             /\ lastOp.before[i].id = lastOp.id)
            => Holds(toasts, lastOp.before[j])

\* C9: every removal is scheduled after the payload's dismissTime when the
\* payload gives one, 0 included, and after the provider's dismissTime (2000
\* when not configured) when it gives none.
C9_EffectiveDelay ==
    \A t \in timers :
        /\ t.delay = EffectiveDelay(t.entry)
        /\ t.due = t.entry.id + t.delay

\* Removals are pending for a payload with dismissTime 0 and for a payload
\* without dismissTime.
C9_Witness ==
    /\ \E t \in timers : t.entry.dismissTime = 0 /\ t.delay = 0
    /\ \E t \in timers : t.entry.dismissTime = NoValue /\ t.delay >= 2

\* C10: the collection is ordered newest-first: dispatchToast puts the new
\* entry at index 1 (the front), and an entry enqueued later precedes every
\* entry enqueued earlier, also after removals.
C10_NewestFirst ==
    /\ \A i, j \in 1..Len(toasts) : i < j => toasts[i].ref > toasts[j].ref
    /\ (lastOp.op = "dispatchToast" /\ mountRef) =>
           (toasts[1] = lastOp.entry /\ Tail(toasts) = lastOp.before)
    /\ lastOp.op \in {"timer", "dismissToast"} =>
           \A i, j \in 1..Len(toasts) : i < j =>
               \E k, l \in 1..Len(lastOp.before) :
                   /\ k < l
                   /\ lastOp.before[k] = toasts[i]
                   /\ lastOp.before[l] = toasts[j]

\* A removal has left two entries in the collection.
C10_Witness ==
    /\ lastOp.op \in {"timer", "dismissToast"}
    /\ Len(lastOp.before) = 3
    /\ Len(toasts) = 2
    /\ lastOp.before[2].ref \notin {toasts[1].ref, toasts[2].ref}

\* C11: calling the dispatch function of useToasts() outside every
\* ToastProvider returns without an error and changes no state.
C11_OutsideDispatchIsNoOp ==
    lastOp.op = "dispatchToastOutsideProvider" =>
        (lastOp.error = "none" /\ toasts = lastOp.before)

\* C12: an entry whose type is not a key of toastDataMap is accepted by
\* dispatchToast without failure, and rendering it with the default renderer
\* Toast in the mounted provider does not fail.
C12_InvalidTypeAcceptedAndRendered ==
    /\ lastOp.op = "dispatchToast" => lastOp.error = "none"
    /\ mountRef =>
           \A i \in 1..Len(toasts) :
               toasts[i].type \notin ToastTypes => Toast(toasts[i]).error = "none"

C14_OneTimerPerDispatch ==
    /\ timersScheduled = dispatchCalls
    /\ lastOp.op = "dispatchToast" => TimerPending(lastOp.entry)

\* dispatchToast has been called on a provider that is not mounted, after an
\* earlier call whose timer is pending while its entry is not in the
\* collection.
C14_Witness ==
    /\ lastOp.op = "dispatchToast"
    /\ ~mountRef
    /\ dispatchCalls >= 2
    /\ \E t \in timers : t.entry.ref # lastOp.entry.ref /\ ~Holds(toasts, t.entry)

\* The entries of the collection that are not the object entry, in their order.
OtherObjects(collection, entry) ==
    LET other(e) == e.ref # entry.ref
    IN  SelectSeq(collection, other)

\* C15: the callback of a timer removes only the entry made by the same
\* dispatchToast call: every other entry, also one of identical payload or of
\* the same identifier, stays in the collection in its position.
C15_TimerRemovesOnlyOwnEntry ==
    lastOp.op = "timer" =>
        /\ OtherObjects(toasts, lastOp.entry) = OtherObjects(lastOp.before, lastOp.entry)
        /\ toasts \in {lastOp.before, OtherObjects(lastOp.before, lastOp.entry)}

\* A timer has removed its entry and has left in the collection an entry of
\* the same identifier and identical payload.
C15_Witness ==
    /\ lastOp.op = "timer"
    /\ Holds(lastOp.before, lastOp.entry)
    /\ ~Holds(toasts, lastOp.entry)
    /\ \E i \in 1..Len(toasts) :
           /\ toasts[i].id = lastOp.entry.id
           /\ PayloadOf(toasts[i]) = PayloadOf(lastOp.entry)

\* The clock value at which the effective delay of the entry has elapsed.
ElapsesAt(entry) == entry.id + EffectiveDelay(entry)

\* C16: removal callbacks run in the order in which the delays elapse,
\* whatever the enqueue order: when the callback of an entry has run, no timer
\* is pending for an entry whose delay elapsed strictly earlier.
C16_CallbacksInElapseOrder ==
    lastOp.op = "timer" =>
        \A u \in timers : ElapsesAt(u.entry) >= ElapsesAt(lastOp.entry)

\* The callback of an entry has run while the timer of an entry enqueued
\* before it, whose delay elapses later, is pending.
C16_Witness ==
    /\ lastOp.op = "timer"
    /\ \E u \in timers :
           /\ u.entry.ref < lastOp.entry.ref
           /\ ElapsesAt(u.entry) > ElapsesAt(lastOp.entry)

\* C17: dismissToast leaves every pending timer armed, and the callback of a
\* timer whose entry is not in the collection any more (it was dismissed)
\* leaves the collection as it was, whatever other entries it holds.
C17_DismissKeepsTimerAndLateCallbackIsNoOp ==
    [][/\ lastOp'.op = "dismissToast" => timers' = timers
       /\ (lastOp'.op = "timer" /\ ~Holds(toasts, lastOp'.entry))
           => toasts' = toasts]_vars

\* dismissToast has removed an entry from a collection of several, and the
\* timer of the removed entry is still pending.
C17_Witness ==
    /\ lastOp.op = "dismissToast"
    /\ Len(toasts) >= 1
    /\ \E t \in timers :
           /\ Holds(lastOp.before, t.entry)
           /\ ~Holds(toasts, t.entry)
           /\ t.entry.id = lastOp.id

\* C18: while the provider is mounted, every entry in the collection has a
\* removal timer that is armed and has not run.
C18_MountedEntriesHavePendingTimer ==
    mountRef => \A i \in 1..Len(toasts) : TimerPending(toasts[i])

\* On a mounted provider a timer has run and removed its entry, and the
\* entries left are shown with their timers pending.
C18_Witness ==
    /\ mountRef
    /\ lastOp.op = "timer"
    /\ Holds(lastOp.before, lastOp.entry)
    /\ Len(toasts) >= 2

====
